---------------------------- MODULE Spec2Model ----------------------------
(***************************************************************************)
(* A model of porcupine's utility helpers (porcupine/utils.py) and of the  *)
(* run-command dialog (porcupine/plugins/run/dialog.py).                   *)
(*                                                                         *)
(* Four independent parts share this module, each with its own             *)
(* specification:                                                          *)
(*   SpecHook    CallbackHook and ContextManagerHook                       *)
(*   SpecThread  run_in_thread (FairSpecThread adds the scheduling)        *)
(*   SpecBackup  backup_open                                               *)
(*   SpecDialog  _CommandAsker and _FormattingEntryAndLabels               *)
(* A specification leaves the variables of the other parts at their idle   *)
(* values.                                                                 *)
(*                                                                         *)
(* Text is a sequence of one-character strings.  Python exceptions are     *)
(* named by their class; Bases gives the classes an error is an instance   *)
(* of, so that "except Exception" and isinstance() are decided as Python   *)
(* decides them.                                                           *)
(***************************************************************************)
EXTENDS Integers, Sequences, FiniteSets, TLC

VARIABLES
    \* ---- CallbackHook / ContextManagerHook
    hookClass,      \* "CallbackHook" or "ContextManagerHook"
    unhandled,      \* self._unhandled: a set of exception classes
    callbacks,      \* self.callbacks: the list of connected callbacks
    serials,        \* for each list position, the number of the connect() that put it there
    nextSerial,     \* the number the next connect() gets
    hpc,            \* where run() is: "idle", "running", "body", "teardown", "done", "raised"
    idx,            \* the position the loop of run() is at
    runArgs,        \* the args run() was called with
    calls,          \* the calls made to callbacks by this run, in order
    logged,         \* list positions whose error this run logged, in order
    generators,     \* the list `generators` of ContextManagerHook.run (list positions)
    raisedErr,      \* the error that left run(), or "none"
    bodyState,      \* the with-block's body: "notrun", "ok" or the class it raised
    \* ---- run_in_thread, one entry per call of it
    blocking,       \* what blocking_function does: "unset", "return", "never" or the class it raises
    thread,         \* the worker thread: "none", "running", "finishing", "exited"
    result,         \* the list `result` shared by thread_target and check
    scheduled,      \* check in the main loop: "none", "idle" (after_idle), "timer" (after 100 ms)
    doneCalls,      \* the calls of done_callback so far
    threadError,    \* the error that left thread_target, or "none"
    \* ---- backup_open
    files,          \* the file system: for each name, the file's bytes or Absent
    bpc,            \* "idle", "body" (inside the with block) or "left"
    mode,           \* the mode given to open()
    backuppath,     \* the name the backup was copied to, or NoBackup
    entry,          \* the file system when backup_open was entered
    raised,         \* the error raised by open() or by the body, or NoError
    propagated,     \* the error that left the with statement, or NoError
    \* ---- the run dialog
    asker,          \* the _CommandAsker: its variables and widgets, as a record
    pending,        \* the key event the bindings of the command entry have not all seen yet, or NoKey
    consumed        \* what _autocomplete returned for the last key: "break", "None", or "idle"

hookVars == <<hookClass, unhandled, callbacks, serials, nextSerial, hpc, idx,
              runArgs, calls, logged, generators, raisedErr, bodyState>>

threadVars == <<blocking, thread, result, scheduled, doneCalls, threadError>>

backupVars == <<files, bpc, mode, backuppath, entry, raised, propagated>>

dialogVars == <<asker, pending, consumed>>

vars == <<hookVars, threadVars, backupVars, dialogVars>>

\* what the steps of one part leave alone
HookFrame == UNCHANGED <<threadVars, backupVars, dialogVars>>
ThreadFrame == UNCHANGED <<hookVars, backupVars, dialogVars>>
BackupFrame == UNCHANGED <<hookVars, threadVars, dialogVars>>
DialogFrame == UNCHANGED <<hookVars, threadVars, backupVars>>

\* the entry of a name no file has (never the bytes of a file)
Absent == <<"absent">>
NoBackup == 0
NoError == [cls |-> "none", origin |-> "none"]

\* the values a part's variables keep in the specifications of the other parts
HookIdle ==
    /\ hookClass = "CallbackHook"
    /\ unhandled = {}
    /\ callbacks = <<>>
    /\ serials = <<>>
    /\ nextSerial = 1
    /\ hpc = "idle"
    /\ idx = 0
    /\ runArgs = <<>>
    /\ calls = <<>>
    /\ logged = <<>>
    /\ generators = <<>>
    /\ raisedErr = "none"
    /\ bodyState = "notrun"

ThreadIdle ==
    /\ blocking = <<>>
    /\ thread = <<>>
    /\ result = <<>>
    /\ scheduled = <<>>
    /\ doneCalls = <<>>
    /\ threadError = <<>>

BackupIdle ==
    /\ files = <<>>
    /\ bpc = "idle"
    /\ mode = "none"
    /\ backuppath = NoBackup
    /\ entry = <<>>
    /\ raised = NoError
    /\ propagated = NoError

NoKey == [keysym |-> "none", char |-> <<>>, printable |-> FALSE]

DialogIdle ==
    /\ asker = <<>>
    /\ pending = NoKey
    /\ consumed = "idle"

-----------------------------------------------------------------------------
(* Python's exception classes, as far as the helpers tell them apart.      *)

ErrorClasses == {"ValueError", "KeyError", "RuntimeError", "SystemExit"}

\* The classes an error of class c is an instance of (its MRO, without object).
Bases(c) ==
    CASE c = "ValueError"   -> {"ValueError", "Exception", "BaseException"}
      [] c = "KeyError"     -> {"KeyError", "LookupError", "Exception", "BaseException"}
      [] c = "IndexError"   -> {"IndexError", "LookupError", "Exception", "BaseException"}
      [] c = "RuntimeError" -> {"RuntimeError", "Exception", "BaseException"}
      [] c = "OSError"      -> {"OSError", "Exception", "BaseException"}
      [] c = "SystemExit"   -> {"SystemExit", "BaseException"}
      [] c = "KeyboardInterrupt" -> {"KeyboardInterrupt", "BaseException"}
      [] OTHER              -> {c, "BaseException"}

\* isinstance(error, classes)
IsInstance(c, classes) == Bases(c) \cap classes # {}

\* what "except Exception" catches
IsException(c) == IsInstance(c, {"Exception"})


-----------------------------------------------------------------------------
(* CallbackHook and ContextManagerHook (utils.py).                          *)
(*                                                                          *)
(* A callback is named by what it does: `call` is what callback(args)      *)
(* followed (for a generator) by the first next() ends in, `resume` what    *)
(* the second next() ends in.                                               *)
(*   call:   "return"  a plain function returning a value                   *)
(*           "yield"   a generator that reaches its first yield             *)
(*           "finish"  a generator that ends without yielding               *)
(*           a class   it raises an error of that class                     *)
(*   resume: "finish"  the generator ends (StopIteration)                   *)
(*           "yield"   it yields a second time                              *)
(*           a class   it raises an error of that class                     *)
(*           "none"    not a generator that reached its yield               *)

MaxConnects == 3

Callback(c, r) == [call |-> c, resume |-> r]

\* the functions connected to a CallbackHook
PlainCallbacks ==
    {Callback("return", "none"), Callback("ValueError", "none"),
     Callback("KeyError", "none"), Callback("SystemExit", "none")}

\* the functions connected to a ContextManagerHook
GeneratorCallbacks ==
    {Callback("yield", "finish"), Callback("yield", "yield"),
     Callback("yield", "ValueError"), Callback("return", "none"),
     Callback("finish", "none"), Callback("ValueError", "none"),
     Callback("SystemExit", "none")}

CallbacksOf(class) ==
    IF class = "CallbackHook" THEN PlainCallbacks ELSE GeneratorCallbacks

\* the unhandled_errors a hook is created with
UnhandledChoices == {{}, {"ValueError"}, {"RuntimeError"}, {"LookupError"}}

ArgChoices == {<<>>, <<"x">>}

BodyChoices == {"ok", "ValueError"}

RemoveAt(s, i) == SubSeq(s, 1, i - 1) \o SubSeq(s, i + 1, Len(s))

\* list.index(x) for an x in the list
IndexOf(s, x) == CHOOSE i \in 1..Len(s) : s[i] = x /\ \A j \in 1..(i - 1) : s[j] # x

Range(s) == {s[i] : i \in 1..Len(s)}

InitHook ==
    /\ hookClass \in {"CallbackHook", "ContextManagerHook"}
    /\ unhandled \in UnhandledChoices
    /\ callbacks = <<>>
    /\ serials = <<>>
    /\ nextSerial = 1
    /\ hpc = "idle"
    /\ idx = 0
    /\ runArgs = <<>>
    /\ calls = <<>>
    /\ logged = <<>>
    /\ generators = <<>>
    /\ raisedErr = "none"
    /\ bodyState = "notrun"

\* CallbackHook.connect
connect(callback) ==
    /\ hpc = "idle"
    /\ nextSerial <= MaxConnects
    /\ callbacks' = Append(callbacks, callback)
    /\ serials' = Append(serials, nextSerial)
    /\ nextSerial' = nextSerial + 1
    /\ UNCHANGED <<hookClass, unhandled, hpc, idx, runArgs, calls, logged,
                   generators, raisedErr, bodyState>>
    /\ HookFrame

\* CallbackHook.disconnect: list.remove() takes out the first occurrence
disconnect(callback) ==
    /\ hpc = "idle"
    /\ callback \in Range(callbacks)
    /\ LET i == IndexOf(callbacks, callback) IN
        /\ callbacks' = RemoveAt(callbacks, i)
        /\ serials' = RemoveAt(serials, i)
    /\ UNCHANGED <<hookClass, unhandled, nextSerial, hpc, idx, runArgs, calls,
                   logged, generators, raisedErr, bodyState>>
    /\ HookFrame

\* a _handle_error that logs whatever it is given
_handle_error_logs_all(error) == "log"

\* _handle_error: "raise" when the error is an instance of self._unhandled,
\* "log" otherwise
_handle_error(error) ==
    IF IsInstance(error, unhandled) THEN "raise" ELSE "log"

\* the try block had its handler been "except BaseException as e"
ExceptBaseException(error) == _handle_error(error)

\* What a try block whose body ends in error class `error` comes to, with the
\* handler "except Exception as e: self._handle_error(callback, e)":
\* "log" (handled and logged) or "raise" (the error leaves run()).
ExceptException(error) ==
    IF IsException(error) THEN _handle_error(error) ELSE "raise"

\* the record of one call: which list entry, with what arguments
CallRecord(i, phase) ==
    [pos |-> i, serial |-> serials[i], cb |-> callbacks[i], args |-> runArgs,
     phase |-> phase]

\* hook.run(args) is entered
StartRun(args) ==
    /\ hpc = "idle"
    /\ hpc' = "running"
    /\ idx' = 1
    /\ runArgs' = args
    /\ calls' = <<>>
    /\ logged' = <<>>
    /\ generators' = <<>>
    /\ raisedErr' = "none"
    /\ bodyState' = "notrun"
    /\ UNCHANGED <<hookClass, unhandled, callbacks, serials, nextSerial>>
    /\ HookFrame

\* one turn of the loop of CallbackHook.run
CallbackHookRunStep ==
    /\ hookClass = "CallbackHook"
    /\ hpc = "running"
    /\ idx <= Len(callbacks)
    /\ calls' = Append(calls, CallRecord(idx, "call"))
    /\ LET outcome == callbacks[idx].call IN
        IF outcome \in ErrorClasses
        THEN IF ExceptException(outcome) = "log"
             THEN /\ logged' = Append(logged, idx)
                  /\ idx' = idx + 1
                  /\ UNCHANGED <<hpc, raisedErr>>
             ELSE /\ hpc' = "raised"
                  /\ raisedErr' = outcome
                  /\ UNCHANGED <<logged, idx>>
        ELSE /\ idx' = idx + 1
             /\ UNCHANGED <<hpc, logged, raisedErr>>
    /\ UNCHANGED <<hookClass, unhandled, callbacks, serials, nextSerial,
                   runArgs, generators, bodyState>>
    /\ HookFrame

\* the loop of CallbackHook.run is over
CallbackHookRunEnd ==
    /\ hookClass = "CallbackHook"
    /\ hpc = "running"
    /\ idx > Len(callbacks)
    /\ hpc' = "done"
    /\ UNCHANGED <<hookClass, unhandled, callbacks, serials, nextSerial, idx,
                   runArgs, calls, logged, generators, raisedErr, bodyState>>
    /\ HookFrame

\* What the try block of the set-up loop ends in for a callback: "yield" when
\* next(generator) reached a yield, or the class of the error raised in it.
SetupOutcome(cb) ==
    CASE cb.call = "return" -> "RuntimeError"   \* not a generator
      [] cb.call = "finish" -> "RuntimeError"   \* StopIteration at once
      [] OTHER              -> cb.call

\* one turn of the set-up loop of ContextManagerHook.run
SetupStep ==
    /\ hookClass = "ContextManagerHook"
    /\ hpc = "running"
    /\ idx <= Len(callbacks)
    /\ calls' = Append(calls, CallRecord(idx, "call"))
    /\ LET outcome == SetupOutcome(callbacks[idx]) IN
        IF outcome = "yield"
        THEN /\ generators' = Append(generators, idx)
             /\ idx' = idx + 1
             /\ UNCHANGED <<hpc, logged, raisedErr>>
        ELSE IF ExceptException(outcome) = "log"
             THEN /\ logged' = Append(logged, idx)
                  /\ idx' = idx + 1
                  /\ UNCHANGED <<hpc, generators, raisedErr>>
             ELSE /\ hpc' = "raised"
                  /\ raisedErr' = outcome
                  /\ UNCHANGED <<logged, generators, idx>>
    /\ UNCHANGED <<hookClass, unhandled, callbacks, serials, nextSerial,
                   runArgs, bodyState>>
    /\ HookFrame

\* the set-up loop is over: run() yields and the with-block's body starts
SetupEnd ==
    /\ hookClass = "ContextManagerHook"
    /\ hpc = "running"
    /\ idx > Len(callbacks)
    /\ hpc' = "body"
    /\ UNCHANGED <<hookClass, unhandled, callbacks, serials, nextSerial, idx,
                   runArgs, calls, logged, generators, raisedErr, bodyState>>
    /\ HookFrame

\* The body of the with block ends.  An error of the body is thrown into
\* run() at its yield, which is outside every try: it leaves run().
Body(outcome) ==
    /\ hpc = "body"
    /\ bodyState' = outcome
    /\ IF outcome = "ok"
       THEN hpc' = "teardown" /\ idx' = 1 /\ UNCHANGED raisedErr
       ELSE hpc' = "raised" /\ raisedErr' = outcome /\ UNCHANGED idx
    /\ UNCHANGED <<hookClass, unhandled, callbacks, serials, nextSerial,
                   runArgs, calls, logged, generators>>
    /\ HookFrame

\* What the try block of the tear-down loop ends in: "finish" when next()
\* raised StopIteration, or the class of the error raised in it.
TeardownOutcome(cb) ==
    IF cb.resume = "yield" THEN "RuntimeError" ELSE cb.resume

\* one turn of the tear-down loop of ContextManagerHook.run
TeardownStep ==
    /\ hpc = "teardown"
    /\ idx <= Len(generators)
    /\ calls' = Append(calls, CallRecord(generators[idx], "resume"))
    /\ LET outcome == TeardownOutcome(callbacks[generators[idx]]) IN
        IF outcome = "finish"
        THEN /\ idx' = idx + 1
             /\ UNCHANGED <<hpc, logged, raisedErr>>
        ELSE IF ExceptException(outcome) = "log"
             THEN /\ logged' = Append(logged, generators[idx])
                  /\ idx' = idx + 1
                  /\ UNCHANGED <<hpc, raisedErr>>
             ELSE /\ hpc' = "raised"
                  /\ raisedErr' = outcome
                  /\ UNCHANGED <<logged, idx>>
    /\ UNCHANGED <<hookClass, unhandled, callbacks, serials, nextSerial,
                   runArgs, generators, bodyState>>
    /\ HookFrame

\* the tear-down loop is over
TeardownEnd ==
    /\ hpc = "teardown"
    /\ idx > Len(generators)
    /\ hpc' = "done"
    /\ UNCHANGED <<hookClass, unhandled, callbacks, serials, nextSerial, idx,
                   runArgs, calls, logged, generators, raisedErr, bodyState>>
    /\ HookFrame

\* run() has returned or raised; the caller goes on
ReturnFromRun ==
    /\ hpc \in {"done", "raised"}
    /\ hpc' = "idle"
    /\ idx' = 0
    /\ runArgs' = <<>>
    /\ calls' = <<>>
    /\ logged' = <<>>
    /\ generators' = <<>>
    /\ raisedErr' = "none"
    /\ bodyState' = "notrun"
    /\ UNCHANGED <<hookClass, unhandled, callbacks, serials, nextSerial>>
    /\ HookFrame

NextHook ==
    \/ \E cb \in CallbacksOf(hookClass) : connect(cb)
    \/ \E cb \in CallbacksOf(hookClass) : disconnect(cb)
    \/ \E args \in ArgChoices : StartRun(args)
    \/ CallbackHookRunStep
    \/ CallbackHookRunEnd
    \/ SetupStep
    \/ SetupEnd
    \/ \E outcome \in BodyChoices : Body(outcome)
    \/ TeardownStep
    \/ TeardownEnd
    \/ ReturnFromRun

HookInit == InitHook /\ ThreadIdle /\ BackupIdle /\ DialogIdle

SpecHook == HookInit /\ [][NextHook]_vars


-----------------------------------------------------------------------------
(* Claims about the hooks.                                                  *)

IsCallPhase(r) == r.phase = "call"
IsResumePhase(r) == r.phase = "resume"

\* the calls of this run that started a callback, and those that resumed one
StartCalls == SelectSeq(calls, IsCallPhase)
ResumeCalls == SelectSeq(calls, IsResumePhase)

\* run() has gone past the call at place k of `calls`
WentOn(k) == k < Len(calls) \/ hpc # "raised"

\* The error a CallbackHook callback raises propagates instead of being logged:
\* as the claim has it, and as the code has it.
PropagatesAsClaimed(error) == IsInstance(error, unhandled)
PropagatesInCode(error) == IsInstance(error, unhandled) \/ ~IsException(error)

\* C4 for a given reading of "propagates": every callback of the list is
\* called once per occurrence, in list order (which is the order of the
\* connect() calls), with the args of run(); a callback that raised was
\* logged and the run went on, unless its error propagates, and then the run
\* ended there with that error.
CallbackHookContract(Propagates(_)) ==
    (hookClass = "CallbackHook" /\ hpc \in {"running", "done", "raised"}) =>
        /\ \A k \in 1..Len(calls) :
              /\ calls[k] = [pos |-> k, serial |-> serials[k], cb |-> callbacks[k],
                             args |-> runArgs, phase |-> "call"]
              /\ \A j \in 1..(k - 1) : calls[j].serial < calls[k].serial
        /\ hpc = "done" => Len(calls) = Len(callbacks)
        /\ \A k \in 1..Len(calls) :
              LET e == callbacks[k].call IN
              /\ (k \in Range(logged)) <=> (e \in ErrorClasses /\ WentOn(k))
              /\ (e \in ErrorClasses /\ ~Propagates(e)) => WentOn(k)
              /\ (e \in ErrorClasses /\ Propagates(e)) =>
                    (k = Len(calls) /\ hpc = "raised" /\ raisedErr = e)
        /\ \A a, b \in 1..Len(logged) : a < b => logged[a] < logged[b]
        /\ hpc = "raised" => Len(calls) >= 1

SetupError(cb) ==
    CASE cb.call = "yield"               -> "none"
      [] cb.call \in {"return", "finish"} -> "RuntimeError"
      [] OTHER                           -> cb.call

\* the error the tear-down of a callback ends in, "none" when it just finishes
TeardownError(cb) ==
    CASE cb.resume = "finish" -> "none"
      [] cb.resume = "yield"  -> "RuntimeError"
      [] OTHER                -> cb.resume

\* the list positions 1..n that satisfy Test, in order
Positions(n, Test(_)) == SelectSeq([i \in 1..n |-> i], Test)

ReachedYield(i) == callbacks[i].call = "yield"

\* C5 for a given reading of "propagates".
\*  - set-up: the callbacks are started in list order, before the body; the
\*    ones that reached their yield are exactly the ones in `generators`;
\*  - the body starts only after every callback was started;
\*  - tear-down: after a body that completed, the callbacks that reached
\*    their yield are resumed once each, in the same order, and no other is;
\*  - a callback whose set-up or tear-down ended in an error that does not
\*    propagate was logged and stopped nothing; an error that propagates
\*    ended run() there.
ContextManagerHookContract(Propagates(_)) ==
    (hookClass = "ContextManagerHook" /\ hpc # "idle") =>
        LET ns == Len(StartCalls)
            nr == Len(ResumeCalls)
            yielded == Positions(ns, ReachedYield)
        IN
        /\ calls = StartCalls \o ResumeCalls
        /\ \A k \in 1..ns :
              StartCalls[k] = [pos |-> k, serial |-> serials[k], cb |-> callbacks[k],
                               args |-> runArgs, phase |-> "call"]
        /\ generators = yielded
        /\ (hpc \in {"body", "teardown", "done"} \/ bodyState # "notrun")
              => ns = Len(callbacks)
        /\ nr > 0 => bodyState = "ok"
        /\ nr <= Len(yielded)
        /\ \A k \in 1..nr :
              /\ ResumeCalls[k].pos = yielded[k]
              /\ ResumeCalls[k].cb = callbacks[yielded[k]]
              /\ ResumeCalls[k].phase = "resume"
        /\ hpc = "done" => (bodyState = "ok" /\ nr = Len(yielded))
        \* errors of the set-up
        /\ \A k \in 1..ns :
              LET e == SetupError(callbacks[k])
                  wentOn == k < ns \/ hpc # "raised" \/ bodyState # "notrun"
              IN
              /\ (e # "none" /\ ~Propagates(e)) => (wentOn /\ k \in Range(logged))
              /\ (e # "none" /\ Propagates(e)) =>
                    (k = ns /\ hpc = "raised" /\ raisedErr = e /\ bodyState = "notrun")
        \* errors of the tear-down
        /\ \A k \in 1..nr :
              LET e == TeardownError(callbacks[yielded[k]])
                  wentOn == k < nr \/ hpc # "raised"
              IN
              /\ (e # "none" /\ ~Propagates(e)) => (wentOn /\ yielded[k] \in Range(logged))
              /\ (e # "none" /\ Propagates(e)) =>
                    (k = nr /\ hpc = "raised" /\ raisedErr = e)
        \* nothing else is logged
        /\ \A k \in 1..Len(logged) :
              \/ SetupError(callbacks[logged[k]]) # "none"
              \/ TeardownError(callbacks[logged[k]]) # "none"
        \* a body that completed is followed by the whole tear-down, unless an
        \* error of it propagates
        /\ (hpc = "raised" /\ bodyState = "ok") =>
              (nr >= 1 /\ Propagates(TeardownError(callbacks[yielded[nr]])))
        /\ (hpc = "raised" /\ bodyState = "notrun") =>
              (ns >= 1 /\ Propagates(SetupError(callbacks[ns])))

NoErrorPropagates(error) == FALSE

-----------------------------------------------------------------------------
(* run_in_thread (utils.py).  Each call has its own closure: its thread,    *)
(* its `result` list and its check callback.  The worker thread and the     *)
(* main loop run concurrently; the main loop runs one callback at a time.   *)

NumCalls == 2

Calls == 1..NumCalls

\* what a blocking_function can do: return a value, raise an error of a
\* class, or never come back
BlockingChoices == {"return", "ValueError", "SystemExit", "never"}

ReturnValue == "value"
TracebackText == "traceback"

InitThread ==
    /\ blocking = [c \in Calls |-> "unset"]
    /\ thread = [c \in Calls |-> "none"]
    /\ result = [c \in Calls |-> <<>>]
    /\ scheduled = [c \in Calls |-> "none"]
    /\ doneCalls = [c \in Calls |-> <<>>]
    /\ threadError = [c \in Calls |-> "none"]

\* run_in_thread(blocking_function, done_callback), called in the main loop:
\* the thread is started, then check is scheduled with after_idle
run_in_thread(c, f) ==
    /\ thread[c] = "none"
    /\ blocking' = [blocking EXCEPT ![c] = f]
    /\ result' = [result EXCEPT ![c] = <<>>]
    /\ thread' = [thread EXCEPT ![c] = "running"]
    /\ scheduled' = [scheduled EXCEPT ![c] = "idle"]
    /\ UNCHANGED <<doneCalls, threadError>>
    /\ ThreadFrame

\* What thread_target leaves in `result` when blocking_function ends as f:
\* its try block stores [True, value], "except Exception" stores
\* [False, traceback], and any other error leaves `result` as it was.
thread_target(f, old) ==
    CASE f = "return"   -> <<TRUE, ReturnValue>>
      [] IsException(f) -> <<FALSE, TracebackText>>
      [] OTHER          -> old

\* the worker thread: blocking_function ends and thread_target with it
ThreadTargetEnds(c) ==
    /\ thread[c] = "running"
    /\ blocking[c] # "never"
    /\ result' = [result EXCEPT ![c] = thread_target(blocking[c], @)]
    /\ threadError' = [threadError EXCEPT ![c] =
          IF blocking[c] = "return" \/ IsException(blocking[c])
          THEN "none" ELSE blocking[c]]
    /\ thread' = [thread EXCEPT ![c] = "finishing"]
    /\ UNCHANGED <<blocking, scheduled, doneCalls>>
    /\ ThreadFrame

\* the worker thread is over: is_alive() is false from here on
ThreadExits(c) ==
    /\ thread[c] = "finishing"
    /\ thread' = [thread EXCEPT ![c] = "exited"]
    /\ UNCHANGED <<blocking, result, scheduled, doneCalls, threadError>>
    /\ ThreadFrame

\* an is_alive() that never sees the thread running
is_alive_never(c) == FALSE

\* thread.is_alive()
is_alive(c) == thread[c] \in {"running", "finishing"}

\* check(), run by the main loop: poll again in 100 ms while the thread is
\* alive, else done_callback is called with result unpacked
check(c) ==
    /\ scheduled[c] # "none"
    /\ IF is_alive(c)
       THEN /\ scheduled' = [scheduled EXCEPT ![c] = "timer"]
            /\ UNCHANGED doneCalls
       ELSE /\ scheduled' = [scheduled EXCEPT ![c] = "none"]
            /\ doneCalls' = [doneCalls EXCEPT ![c] =
                  Append(@, [args |-> result[c], alive |-> is_alive(c),
                             caller |-> "mainloop"])]
    /\ UNCHANGED <<blocking, thread, result, threadError>>
    /\ ThreadFrame

NextThread ==
    \/ \E c \in Calls, f \in BlockingChoices : run_in_thread(c, f)
    \/ \E c \in Calls : ThreadTargetEnds(c)
    \/ \E c \in Calls : ThreadExits(c)
    \/ \E c \in Calls : check(c)

ThreadInit == InitThread /\ HookIdle /\ BackupIdle /\ DialogIdle

SpecThread == ThreadInit /\ [][NextThread]_vars

\* The scheduling: a thread whose blocking_function comes back runs to its
\* end, and the main loop keeps running the callbacks scheduled in it.
FairSpecThread ==
    /\ SpecThread
    /\ \A c \in Calls :
          /\ WF_vars(ThreadTargetEnds(c))
          /\ WF_vars(ThreadExits(c))
          /\ WF_vars(check(c))

\* C2 (as stated): done_callback is only ever called as done_callback(True,
\* value) when blocking_function returned value, or as done_callback(False,
\* traceback_text) when it raised, and an error of blocking_function goes
\* nowhere else.
C2_DoneCallbackArguments ==
    \A c \in Calls :
        \A k \in 1..Len(doneCalls[c]) :
            LET a == doneCalls[c][k].args IN
            /\ Len(a) = 2
            /\ blocking[c] = "return" => a = <<TRUE, ReturnValue>>
            /\ blocking[c] # "return" => a = <<FALSE, TracebackText>>
            /\ threadError[c] = "none"

\* done_callback is called by the main loop, never while the worker thread
\* is alive and at most once per call of run_in_thread
C3_Safety ==
    \A c \in Calls :
        /\ Len(doneCalls[c]) <= 1
        /\ \A k \in 1..Len(doneCalls[c]) :
              /\ doneCalls[c][k].alive = FALSE
              /\ doneCalls[c][k].caller = "mainloop"
        /\ doneCalls[c] # <<>> => thread[c] = "exited"

\* C3: in every interleaving of the worker thread with the main loop,
\* done_callback is run by the main loop only after the worker thread has
\* exited and at most once per call of run_in_thread; and when
\* blocking_function terminates and the main loop keeps running what is
\* scheduled, done_callback is eventually called exactly once.
C3_DoneCallbackAfterThreadExit ==
    /\ []C3_Safety
    /\ \A c \in Calls :
          (thread[c] # "none" /\ blocking[c] # "never") ~> (Len(doneCalls[c]) = 1)

\* One call is over and its done_callback was called, while the other call's
\* thread is still alive and its check was put off to the timer.
C3_Witness ==
    /\ Len(doneCalls[1]) = 1
    /\ doneCalls[1][1].args = <<TRUE, ReturnValue>>
    /\ thread[2] = "running"
    /\ scheduled[2] = "timer"
    /\ doneCalls[2] = <<>>


-----------------------------------------------------------------------------
(* backup_open (utils.py).                                                  *)
(*                                                                          *)
(* The file system holds the file at `path` (name 0) and the names the      *)
(* while loop tries for the backup: name k is path with "-backup" put k     *)
(* times before the extension.  A file is its bytes.  shutil.copy,          *)
(* shutil.move and os.remove are taken to succeed; open() and the body of   *)
(* the with block can raise.  The writes of the body go to the file that    *)
(* open() opened; after shutil.move has renamed the backup over path, path  *)
(* names the backup's bytes.                                                *)

MaxBackupNames == 2
MaxFileLen == 2

Names == 0..(MaxBackupNames + 1)

OldBytes == <<"o">>

OpenModes == {"w", "a", "x", "r"}

\* the errors open() can end in besides the ones its mode decides
OpenErrors == {"OSError"}

\* the errors the body of the with block can raise
BodyErrors == {"ValueError", "OSError", "KeyboardInterrupt"}

InitBackup ==
    /\ files \in {f \in [Names -> {Absent, <<>>, OldBytes}] :
                    /\ f[MaxBackupNames + 1] = Absent
                    /\ \A k \in 1..MaxBackupNames : f[k] # <<>>}
    /\ bpc = "idle"
    /\ mode = "none"
    /\ backuppath = NoBackup
    /\ entry = files
    /\ raised = NoError
    /\ propagated = NoError

\* os.path.exists
exists(fs, name) == fs[name] # Absent

\* The while loop of backup_open: starting from path itself, add "-backup"
\* to the name until no file has it.
BackupPath(fs) ==
    CHOOSE k \in Names : ~exists(fs, k) /\ \A j \in 0..(k - 1) : exists(fs, j)

\* shutil.copy(src, dst)
copy(fs, src, dst) == [fs EXCEPT ![dst] = fs[src]]

\* a move that leaves src where it was, as shutil.copy does
move_keeping_src(fs, src, dst) == copy(fs, src, dst)

\* shutil.move(src, dst): dst gets the bytes of src, and src is no more
move(fs, src, dst) == [fs EXCEPT ![dst] = fs[src], ![src] = Absent]

\* os.remove(name)
remove(fs, name) == [fs EXCEPT ![name] = Absent]

\* What open(path, mode) ends in by its mode alone: "ok" or an error class.
OpenByMode(fs, m) ==
    CASE m = "x" /\ exists(fs, 0)  -> "OSError"    \* FileExistsError
      [] m = "r" /\ ~exists(fs, 0) -> "OSError"    \* FileNotFoundError
      [] OTHER                     -> "ok"

\* the file system after open(path, mode) succeeded
AfterOpen(fs, m) ==
    CASE m = "w"                   -> [fs EXCEPT ![0] = <<>>]
      [] m \in {"a", "x"} /\ ~exists(fs, 0) -> [fs EXCEPT ![0] = <<>>]
      [] OTHER                     -> fs

Error(cls, origin) == [cls |-> cls, origin |-> origin]

\* The except clause of backup_open, entered with the error e raised at the
\* yield or by open(): "except Exception" restores from the backup; any
\* other error passes with the files as they are.
OnError(fs, e, backup) ==
    IF IsException(e.cls) THEN move(fs, backup, 0) ELSE fs

\* "with backup_open(path, mode) as file:" is entered.  `env` is what the
\* operating system makes of open(): "ok" or an error.
backup_open_enter(m, env) ==
    /\ bpc = "idle"
    /\ \E k \in Names : ~exists(files, k)   \* the names modelled are not used up
    /\ mode' = m
    /\ entry' = files
    /\ LET outcome == IF OpenByMode(files, m) # "ok" THEN OpenByMode(files, m) ELSE env
       IN
       IF exists(files, 0)
       THEN LET backup == BackupPath(files)
                copied == copy(files, 0, backup)
            IN
            /\ backuppath' = backup
            /\ IF outcome = "ok"
               THEN /\ files' = AfterOpen(copied, m)
                    /\ bpc' = "body"
                    /\ raised' = NoError
                    /\ propagated' = NoError
               ELSE /\ files' = OnError(copied, Error(outcome, "open"), backup)
                    /\ bpc' = "left"
                    /\ raised' = Error(outcome, "open")
                    /\ propagated' = Error(outcome, "open")
       ELSE /\ backuppath' = NoBackup
            /\ IF outcome = "ok"
               THEN /\ files' = AfterOpen(files, m)
                    /\ bpc' = "body"
                    /\ raised' = NoError
                    /\ propagated' = NoError
               ELSE /\ files' = files
                    /\ bpc' = "left"
                    /\ raised' = Error(outcome, "open")
                    /\ propagated' = Error(outcome, "open")
    /\ BackupFrame

\* the body of the with block writes a byte to the file
BodyWrites ==
    /\ bpc = "body"
    /\ mode # "r"
    /\ Len(files[0]) < MaxFileLen
    /\ files' = [files EXCEPT ![0] = Append(@, "n")]
    /\ UNCHANGED <<bpc, mode, backuppath, entry, raised, propagated>>
    /\ BackupFrame

\* the body of the with block completes: the else clause deletes the backup
BodyCompletes ==
    /\ bpc = "body"
    /\ files' = IF backuppath # NoBackup THEN remove(files, backuppath) ELSE files
    /\ bpc' = "left"
    /\ UNCHANGED <<mode, backuppath, entry, raised, propagated>>
    /\ BackupFrame

\* the body of the with block raises: the error is thrown into backup_open
\* at its yield
BodyRaises(cls) ==
    /\ bpc = "body"
    /\ LET e == Error(cls, "body") IN
        /\ files' = IF backuppath # NoBackup THEN OnError(files, e, backuppath) ELSE files
        /\ raised' = e
        /\ propagated' = e
    /\ bpc' = "left"
    /\ UNCHANGED <<mode, backuppath, entry>>
    /\ BackupFrame

\* the caller goes on after the with statement
AfterWith ==
    /\ bpc = "left"
    /\ bpc' = "idle"
    /\ mode' = "none"
    /\ backuppath' = NoBackup
    /\ entry' = files
    /\ raised' = NoError
    /\ propagated' = NoError
    /\ UNCHANGED files
    /\ BackupFrame

NextBackup ==
    \/ \E m \in OpenModes, env \in {"ok"} \cup OpenErrors : backup_open_enter(m, env)
    \/ BodyWrites
    \/ BodyCompletes
    \/ \E cls \in BodyErrors : BodyRaises(cls)
    \/ AfterWith

BackupInit == InitBackup /\ HookIdle /\ ThreadIdle /\ DialogIdle

SpecBackup == BackupInit /\ [][NextBackup]_vars

\* C1 for the errors in Covered: when the file existed as backup_open was
\* entered and open() or the body raised such an error, then after the with
\* block path holds the bytes it held at entry, no file has the backup's
\* name, and the error raised is the one that leaves the with statement.
RestoresOnFailure(Covered(_)) ==
    (/\ bpc = "left"
     /\ entry[0] # Absent
     /\ raised # NoError
     /\ Covered(raised.cls))
    => /\ files[0] = entry[0]
       /\ backuppath # NoBackup
       /\ files[backuppath] = Absent
       /\ propagated = raised

AnyError(cls) == TRUE
InstanceOfException(cls) == "Exception" \in Bases(cls)

\* C1 as stated: backup_open restores the file, removes the backup and lets
\* the same exception through whenever open() or the body raises an exception.
C1_AsStated == RestoresOnFailure(AnyError)

\* C1 amended: backup_open restores the file, removes the backup and lets the
\* same exception through whenever open() or the body raises an exception
\* that is an instance of Exception.
C1_BackupOpenRestores == RestoresOnFailure(InstanceOfException)

\* The file existed, was opened for writing and truncated, the body wrote to
\* it and then raised an OSError; the with block has been left, and a file
\* that already had the first backup name made the loop pick the second.
C1_Witness ==
    /\ bpc = "left"
    /\ mode = "w"
    /\ entry[0] = OldBytes
    /\ raised = Error("OSError", "body")
    /\ backuppath = 2
    /\ files[0] = OldBytes


-----------------------------------------------------------------------------
(* The run dialog (plugins/run/dialog.py).                                  *)
(*                                                                          *)
(* common.Command and the history module are not among the source files:    *)
(* Command.format_command and Command.format_cwd are modelled from what     *)
(* the specification and the dialog say of them, as Python's str.format     *)
(* with the substitutions as keyword arguments, the working directory       *)
(* being made a path.  A substitution has a one-character name.             *)

MaxTextLen == 3

Min(a, b) == IF a < b THEN a ELSE b

\* str.startswith
startswith(text, prefix) ==
    Len(prefix) <= Len(text) /\ SubSeq(text, 1, Len(prefix)) = prefix

Formatted(text) == [error |-> "none", text |-> text]
FormatError(cls) == [error |-> cls, text |-> <<>>]

\* a formatted rest with more text before it
Prepend(text, rest) ==
    IF rest.error = "none" THEN Formatted(text \o rest.text) ELSE rest

\* the place of the first "}" of t after place i, 0 when there is none
ClosingBrace(t, i) ==
    IF \E j \in (i + 1)..Len(t) : t[j] = "}"
    THEN CHOOSE j \in (i + 1)..Len(t) :
            t[j] = "}" /\ \A k \in (i + 1)..(j - 1) : t[k] # "}"
    ELSE 0

\* str.format(**subs) on t from place i: "{{" and "}}" are braces, "{name}"
\* is replaced by subs[name], a lone brace is a ValueError, a field without a
\* name an IndexError (there are no positional arguments), and a name that
\* is no key a KeyError.  The first error met from the left is the one raised.
FormatFrom(t, subs) ==
    LET from[i \in 1..(Len(t) + 2)] ==
        IF i > Len(t) THEN Formatted(<<>>)
        ELSE IF t[i] = "{" THEN
            IF i < Len(t) /\ t[i + 1] = "{"
            THEN Prepend(<<"{">>, from[i + 2])
            ELSE LET j == ClosingBrace(t, i)
                     name == SubSeq(t, i + 1, j - 1)
                 IN
                 IF j = 0 \/ (\E k \in 1..Len(name) : name[k] = "{")
                 THEN FormatError("ValueError")
                 ELSE IF name = <<>> THEN FormatError("IndexError")
                 ELSE IF Len(name) = 1 /\ name[1] \in DOMAIN subs
                 THEN Prepend(subs[name[1]], from[j + 1])
                 ELSE FormatError("KeyError")
        ELSE IF t[i] = "}" THEN
            IF i < Len(t) /\ t[i + 1] = "}"
            THEN Prepend(<<"}">>, from[i + 2])
            ELSE FormatError("ValueError")
        ELSE Prepend(<<t[i]>>, from[i + 1])
    IN from

\* str.format(**subs)
Format(t, subs) == FormatFrom(t, subs)[1]

\* pathlib.Path(text) as str() shows it: the empty path is ".", and a
\* trailing slash is dropped
Path(text) ==
    IF text = <<>> THEN <<".">>
    ELSE IF Len(text) > 1 /\ text[Len(text)] = "/" THEN SubSeq(text, 1, Len(text) - 1)
    ELSE text

\* Command.format_command()
format_command(command) == Format(command.command_format, command.substitutions)

\* Path(formatted) of Command.format_cwd(): an error of str.format leaves
\* before the path is made
PathOf(r) == IF r.error = "none" THEN Formatted(Path(r.text)) ELSE r

\* Command.format_cwd()
format_cwd(command) == PathOf(Format(command.cwd_format, command.substitutions))

\* the directories that exist
ExistingDirs == {<<"/">>, <<"/", "d">>, <<".">>}

\* Path.is_dir() and Path.is_absolute()
is_dir(path) == path \in ExistingDirs
is_absolute(path) == path # <<>> /\ path[1] = "/"

\* bool(text.strip())
NotBlank(text) == \E k \in 1..Len(text) : text[k] # " "

\* ctx.get_substitutions(): the dialog is opened for a file in /d, or for
\* one whose folder substitutes to a blank
SubstitutionChoices ==
    {[name \in {"f"} |-> <<"/", "d">>], [name \in {"f"} |-> <<" ">>]}

HistoryItem(cf, cwd, ext) ==
    [command_format |-> cf, cwd_format |-> cwd, external_terminal |-> ext]

\* history.get_commands_to_suggest(ctx): three commands of which the first
\* two start alike
History ==
    <<HistoryItem(<<"f", " ">>, <<"{", "f", "}">>, FALSE),
      HistoryItem(<<"f", "f">>, <<"/">>, TRUE),
      HistoryItem(<<"{", "f", "}">>, <<"{">>, FALSE)>>

SuggestionChoices == {History}

NoCommand == HistoryItem(<<"none">>, <<"none">>, FALSE)

\* what can be written into the working-directory entry
CwdChoices ==
    {<<>>, <<"{", "f", "}">>, <<"/">>, <<"/", "f">>, <<"{">>, <<"{", "}">>,
     <<"{", "/", "}">>}

\* self._repeat_bindings: utils.get_binding("<<Run:Repeat{key_id}>>") for the
\* four key ids
_repeat_bindings == <<"F5", "F6", "F7", "F8">>

\* what can be written into the repeat-key combobox
RepeatChoices == {_repeat_bindings[1], "x"}

SubstitutionError == <<"Substitution error">>

\* a get_command that hands the two format texts over the wrong way round
get_command_swapped(a) ==
    [command_format |-> a.cwd_format,
     cwd_format |-> a.command_format,
     external_terminal |-> a.terminal_var,
     substitutions |-> a.substitutions]

\* _CommandAsker.get_command
get_command(a) ==
    [command_format |-> a.command_format,
     cwd_format |-> a.cwd_format,
     external_terminal |-> a.terminal_var,
     substitutions |-> a.substitutions]

\* the get_substituted_value lambdas given to the two _FormattingEntryAndLabels
get_substituted_value(a, which) ==
    IF which = "command" THEN format_command(get_command(a))
    ELSE format_cwd(get_command(a))

\* the errors of str.format that the dialog catches
SubstitutionErrors == {"ValueError", "KeyError", "IndexError"}

\* a formatting that raised one of the caught errors
Caught(value) == value.error # "none" /\ IsInstance(value.error, SubstitutionErrors)

\* the try statement of command_and_cwd_are_valid, given what the two
\* formattings gave
AreValid(command, cwd) ==
    IF Caught(command) \/ Caught(cwd)
    THEN FALSE
    ELSE NotBlank(command.text) /\ is_dir(cwd.text) /\ is_absolute(cwd.text)

\* _CommandAsker.command_and_cwd_are_valid
command_and_cwd_are_valid(a) ==
    AreValid(format_command(get_command(a)), format_cwd(get_command(a)))

\* an update_run_button that does not look at the repeat key
update_run_button_any_key(a) ==
    IF command_and_cwd_are_valid(a)
    THEN [a EXCEPT !.run_button = "normal"]
    ELSE [a EXCEPT !.run_button = "disabled"]

\* _CommandAsker.update_run_button
update_run_button(a) ==
    IF command_and_cwd_are_valid(a) /\ a.repeat_var \in Range(_repeat_bindings)
    THEN [a EXCEPT !.run_button = "normal"]
    ELSE [a EXCEPT !.run_button = "disabled"]

\* the text the display under an entry gets
SetDisplay(a, which, text) ==
    IF which = "command" THEN [a EXCEPT !.command_display = text]
    ELSE [a EXCEPT !.cwd_display = text]

\* a validate without its except clause: the display gets what there is of
\* the value
DisplayText_uncaught(value) == value.text

\* the try statement of validate: what the display is configured to show
DisplayText(value) == IF Caught(value) THEN SubstitutionError ELSE value.text

\* _FormattingEntryAndLabels.validate of the entry `which`; its validated
\* callback is update_run_button
validate(a, which) ==
    update_run_button(
        [SetDisplay(a, which, DisplayText(get_substituted_value(a, which)))
            EXCEPT !.validated = @ + 1])

\* ttk.Entry: the selection is cleared when it is empty
selection_range(a, start, end) ==
    IF end <= start THEN [a EXCEPT !.sel_first = -1, !.sel_last = -1]
    ELSE [a EXCEPT !.sel_first = start, !.sel_last = end]

selection_present(a) == a.sel_first # -1

\* entry.icursor(index)
icursor(a, index) == [a EXCEPT !.insert = index]

\* entry.selection_range("insert", "end")
select_to_end(a) == selection_range(a, a.insert, Len(a.command_format))

\* entry.selection_range(0, "end")
select_all(a) == selection_range(a, 0, Len(a.command_format))

\* The entry's text changes: the cursor and the selection are kept inside it.
EntryText(a, text) ==
    LET n == Len(text)
        gone == a.sel_first = -1 \/ a.sel_first >= n
    IN [a EXCEPT !.command_format = text,
                 !.insert = Min(@, n),
                 !.sel_first = IF gone THEN -1 ELSE @,
                 !.sel_last = IF gone THEN -1 ELSE Min(@, n)]

\* the variable of the entry `which` holds the text
Written(a, which, text) ==
    IF which = "command" THEN EntryText(a, text) ELSE [a EXCEPT !.cwd_format = text]

\* format_var.set(text), or an edit of the entry: the variable is written
\* and its write trace calls validate
write_format_var(a, which, text) ==
    validate([Written(a, which, text) EXCEPT !.writes = @ + 1], which)

\* _CommandAsker._select_command_autocompletion
_select_command_autocompletion(a, command, prefix) ==
    [write_format_var(
        select_to_end(icursor(write_format_var(a, "command", command.command_format),
                              Len(prefix))),
        "cwd", command.cwd_format)
     EXCEPT !.terminal_var = command.external_terminal]

\* the last of the suggestions that match, not the first
LastSuggestion(a, wanted) ==
    LET matching == {i \in 1..Len(a.suggestions) :
                        startswith(a.suggestions[i].command_format, wanted)}
    IN IF matching = {} THEN 0
       ELSE CHOOSE i \in matching : \A j \in matching : i >= j

\* the first of the suggestions whose command format starts with `wanted`,
\* 0 when none does
FirstSuggestion(a, wanted) ==
    LET matching == {i \in 1..Len(a.suggestions) :
                        startswith(a.suggestions[i].command_format, wanted)}
    IN IF matching = {} THEN 0
       ELSE CHOOSE i \in matching : \A j \in matching : i <= j

\* _CommandAsker._autocomplete: the asker after it, and what it returns
\* _CommandAsker._autocomplete gives the asker after it and what it returns.
\* The loop of _autocomplete over the suggestions, `item` being the first
\* that matches
Suggest(a, item, wanted) ==
    IF item # 0
    THEN [asker |-> _select_command_autocompletion(a, a.suggestions[item], wanted),
          result |-> "break"]
    ELSE [asker |-> a, result |-> "None"]

\* text_to_keep of _autocomplete
text_to_keep(a) ==
    IF selection_present(a)
    THEN SubSeq(a.command_format, 1, a.sel_first)
    ELSE a.command_format

_autocomplete(a, event) ==
    IF Len(event.char) # 1 \/ ~event.printable
    THEN [asker |-> a, result |-> "None"]
    ELSE IF selection_present(a) /\ a.sel_last # Len(a.command_format)
    THEN [asker |-> a, result |-> "None"]
    ELSE Suggest(a, FirstSuggestion(a, text_to_keep(a) \o event.char),
                 text_to_keep(a) \o event.char)


\* an event starts: the counts of this event's writes and validations
Fresh(a) == [a EXCEPT !.writes = 0, !.validated = 0]

\* The widgets and variables as _CommandAsker.__init__ creates them, before
\* it fills them in.
NewAsker(ctx) ==
    [substitutions |-> ctx.substitutions,
     suggestions |-> ctx.suggestions,
     command_format |-> <<>>,
     cwd_format |-> <<>>,
     terminal_var |-> FALSE,
     repeat_var |-> _repeat_bindings[ctx.key_id + 1],
     command_display |-> <<>>,
     cwd_display |-> <<>>,
     run_button |-> "normal",
     insert |-> 0,
     sel_first |-> -1,
     sel_last |-> -1,
     writes |-> 0,
     validated |-> 0]

\* _CommandAsker.__init__: the command to repeat (or "{folder_path}" as the
\* working directory) is filled in, the command is selected, and both
\* entries are validated.  `writes` and `validated` count per event, and
\* start at 0 for the first one.
__init__(ctx) ==
    Fresh(validate(validate(select_all(
        IF ctx.previous_command = NoCommand
        THEN write_format_var(NewAsker(ctx), "cwd", <<"{", "f", "}">>)
        ELSE _select_command_autocompletion(NewAsker(ctx), ctx.previous_command, <<>>)),
        "command"), "cwd"))

\* the contexts the dialog is opened in
Contexts ==
    {[substitutions |-> subs, suggestions |-> sugg, key_id |-> k, previous_command |-> prev] :
        subs \in SubstitutionChoices, sugg \in SuggestionChoices, k \in {0, 3},
        prev \in {NoCommand, History[1], History[3]}}

InitDialog ==
    /\ \E ctx \in {c \in Contexts :
                     c.previous_command = NoCommand
                     \/ c.previous_command \in Range(c.suggestions)} :
          asker = __init__(ctx)
    /\ pending = NoKey
    /\ consumed = "idle"

\* the characters the keys type
KeyChars == {"{", "f"}

\* The key events: a key that types one character, BackSpace (a control
\* character), the Left arrow (no character), and an input method that
\* commits two characters at once.
KeyEvents ==
    {[keysym |-> c, char |-> <<c>>, printable |-> TRUE] : c \in KeyChars}
    \cup {[keysym |-> "BackSpace", char |-> <<"BS">>, printable |-> FALSE],
          [keysym |-> "Left", char |-> <<>>, printable |-> FALSE],
          [keysym |-> "Multi_key", char |-> <<"f", "f">>, printable |-> TRUE]}

\* the text with the selection taken out, and the place it was taken from
WithoutSelection(a) ==
    IF selection_present(a)
    THEN [text |-> SubSeq(a.command_format, 1, a.sel_first)
                    \o SubSeq(a.command_format, a.sel_last + 1, Len(a.command_format)),
          at |-> a.sel_first]
    ELSE [text |-> a.command_format, at |-> a.insert]

\* the characters put into the text w.text at the place w.at
InsertAt(w, chars) ==
    SubSeq(w.text, 1, w.at) \o chars \o SubSeq(w.text, w.at + 1, Len(w.text))

\* the text of the command entry after the class binding has typed the
\* event's characters
Typed(a, event) == InsertAt(WithoutSelection(a), event.char)

\* what Tk does with the value the <Key> binding returned
Returned(r, event) ==
    /\ asker' = r.asker
    /\ consumed' = r.result
    /\ pending' = IF r.result = "break" THEN NoKey ELSE event

\* A key is pressed in the command entry without Alt: the <Key> binding,
\* _autocomplete, runs; the class binding follows unless it returned "break".
KeyPress(event) ==
    /\ pending = NoKey
    /\ event.printable => Len(Typed(asker, event)) <= MaxTextLen
    /\ Returned(_autocomplete(Fresh(asker), event), event)
    /\ DialogFrame

\* A key is pressed with Alt: the <Alt-Key> binding, which does nothing, runs
\* in place of _autocomplete, and Tk's class binding types nothing.
AltKeyPress(event) ==
    /\ pending = NoKey
    /\ asker' = Fresh(asker)
    /\ consumed' = "idle"
    /\ UNCHANGED pending
    /\ DialogFrame

\* Tk's class binding of the entry handles the pending key: it types the
\* characters in place of the selection, deletes backwards, or moves the
\* cursor; a change of the text writes the variable.
ClassBinding ==
    /\ pending # NoKey
    /\ LET a == asker
           w == WithoutSelection(a)
           cleared == [a EXCEPT !.sel_first = -1, !.sel_last = -1]
       IN
       asker' =
         CASE pending.printable ->
                [write_format_var([cleared EXCEPT !.insert = 0], "command", Typed(a, pending))
                    EXCEPT !.insert = w.at + Len(pending.char)]
           [] pending.keysym = "BackSpace" /\ selection_present(a) ->
                [write_format_var([cleared EXCEPT !.insert = 0], "command", w.text)
                    EXCEPT !.insert = w.at]
           [] pending.keysym = "BackSpace" /\ ~selection_present(a) /\ a.insert > 0 ->
                [write_format_var([a EXCEPT !.insert = 0], "command",
                        SubSeq(a.command_format, 1, a.insert - 1)
                          \o SubSeq(a.command_format, a.insert + 1, Len(a.command_format)))
                    EXCEPT !.insert = a.insert - 1]
           [] pending.keysym = "Left" ->
                [cleared EXCEPT !.insert = IF a.insert > 0 THEN a.insert - 1 ELSE 0]
           [] OTHER -> a
    /\ pending' = NoKey
    /\ UNCHANGED consumed
    /\ DialogFrame

\* the mouse selects the characters first..last-1 of the command entry; the
\* cursor goes to the end of the selection
SelectRange(first, last) ==
    /\ pending = NoKey
    /\ first < last
    /\ last <= Len(asker.command_format)
    /\ asker' = [Fresh(asker) EXCEPT !.sel_first = first, !.sel_last = last, !.insert = last]
    /\ consumed' = "idle"
    /\ UNCHANGED pending
    /\ DialogFrame

\* the working-directory entry is edited
EditCwd(text) ==
    /\ pending = NoKey
    /\ asker' = write_format_var(Fresh(asker), "cwd", text)
    /\ consumed' = "idle"
    /\ UNCHANGED pending
    /\ DialogFrame

\* the repeat-key combobox is edited: the write trace of _repeat_var calls
\* update_run_button
EditRepeat(text) ==
    /\ pending = NoKey
    /\ asker' = update_run_button([Fresh(asker) EXCEPT !.repeat_var = text])
    /\ consumed' = "idle"
    /\ UNCHANGED pending
    /\ DialogFrame

\* a radio button, Alt-p or Alt-e sets terminal_var
SetTerminal(external) ==
    /\ pending = NoKey
    /\ asker' = [Fresh(asker) EXCEPT !.terminal_var = external]
    /\ consumed' = "idle"
    /\ UNCHANGED pending
    /\ DialogFrame

NextDialog ==
    \/ \E event \in KeyEvents : KeyPress(event)
    \/ \E event \in KeyEvents : AltKeyPress(event)
    \/ ClassBinding
    \/ \E first, last \in 0..MaxTextLen : SelectRange(first, last)
    \/ \E text \in CwdChoices : EditCwd(text)
    \/ \E text \in RepeatChoices : EditRepeat(text)
    \/ \E external \in BOOLEAN : SetTerminal(external)

DialogInit == InitDialog /\ HookIdle /\ ThreadIdle /\ BackupIdle

SpecDialog == DialogInit /\ [][NextDialog]_vars

Spec == SpecDialog


-----------------------------------------------------------------------------
(* What the run dialog is said to do.                                       *)

\* what the two entries format to, by str.format on the entry's text alone
CommandValue == Format(asker.command_format, asker.substitutions)
CwdValue == PathOf(Format(asker.cwd_format, asker.substitutions))

\* the display shows "Substitution error" exactly when the formatting raised
\* ValueError, KeyError or IndexError, and the formatted value when it
\* raised nothing
Shows(display, value) ==
    /\ display = SubstitutionError
         <=> value.error \in {"ValueError", "KeyError", "IndexError"}
    /\ value.error = "none" => display = value.text

OtherwiseDifferent(a) ==
    {[a EXCEPT !.terminal_var = t, !.repeat_var = r] :
        t \in BOOLEAN, r \in RepeatChoices}

\* the command of get_command formats to what the two texts and the
\* substitutions alone give, and each display is given by its own entry's
\* text and the substitutions
FormatsByTextsAlone ==
    /\ \A b \in OtherwiseDifferent(asker) :
          /\ format_command(get_command(b)) = CommandValue
          /\ format_cwd(get_command(b)) = CwdValue
    /\ \A t \in CwdChoices :
          format_command(get_command([asker EXCEPT !.cwd_format = t])) = CommandValue
    /\ Shows(asker.command_display, format_command(get_command(asker)))
    /\ Shows(asker.cwd_display, format_cwd(get_command(asker)))

\* a step leaves the substitutions alone, and a display whose entry's text
\* it leaves alone
SubstitutionsStay ==
    /\ asker'.substitutions = asker.substitutions
    /\ asker'.command_format = asker.command_format
         => asker'.command_display = asker.command_display
    /\ asker'.cwd_format = asker.cwd_format
         => asker'.cwd_display = asker.cwd_display

Runnable ==
    /\ CommandValue.error = "none"
    /\ CwdValue.error = "none"
    /\ \E k \in 1..Len(CommandValue.text) : CommandValue.text[k] # " "
    /\ CwdValue.text \in ExistingDirs
    /\ Len(CwdValue.text) > 0 /\ CwdValue.text[1] = "/"
    /\ \E k \in 1..4 : asker.repeat_var = _repeat_bindings[k]

\* C8: From the constructed dialog on, after any edits of the command entry,
\* the working-directory entry and the repeat-key combobox and after any
\* autocompletions, the Run button is enabled if and only if the command and
\* the working directory both format without a substitution error, the
\* formatted command is not blank, the formatted working directory is an
\* absolute path of an existing directory, and the repeat-key text is one of
\* the four repeat bindings; otherwise it is disabled.
C8_RunButton ==
    IF Runnable THEN asker.run_button = "normal" ELSE asker.run_button = "disabled"

\* the Run button is enabled after an edit that wrote an entry
C8_Witness ==
    /\ asker.run_button = "normal"
    /\ asker.writes > 0
    /\ asker.repeat_var = _repeat_bindings[4]

\* the entry text, cut at the start of the selection when there is one
Kept(a) ==
    IF a.sel_first # -1 THEN SubSeq(a.command_format, 1, a.sel_first)
    ELSE a.command_format

\* the suggestions, by their place in the list, whose command format starts
\* with the text
Matching(a, text) ==
    {i \in 1..Len(a.suggestions) :
        /\ Len(text) <= Len(a.suggestions[i].command_format)
        /\ \A k \in 1..Len(text) : a.suggestions[i].command_format[k] = text[k]}

\* the key types one printable character, any selection reaches the end of
\* the entry, and a suggestion starts with the kept text and the character
Completes(a, event) ==
    /\ Len(event.char) = 1
    /\ event.printable
    /\ a.sel_first # -1 => a.sel_last = Len(a.command_format)
    /\ Matching(a, Kept(a) \o event.char) # {}

\* the dialog `after` the suggestion at place i was applied to `a` for the
\* key: the entries and the terminal choice are the suggestion's, the cursor
\* is right after the kept text and the character, the rest is selected
Applied(a, after, i, event) ==
    LET cursor == Len(Kept(a)) + 1 IN
    /\ after.command_format = a.suggestions[i].command_format
    /\ after.cwd_format = a.suggestions[i].cwd_format
    /\ after.terminal_var = a.suggestions[i].external_terminal
    /\ after.insert = cursor
    /\ IF cursor < Len(after.command_format)
       THEN after.sel_first = cursor /\ after.sel_last = Len(after.command_format)
       ELSE after.sel_first = -1

\* what a key press without Alt does to the dialog
AutocompleteOnKey(event) ==
    IF Completes(asker, event)
    THEN /\ \E i \in Matching(asker, Kept(asker) \o event.char) :
              /\ \A j \in Matching(asker, Kept(asker) \o event.char) : i <= j
              /\ Applied(asker, asker', i, event)
         /\ consumed' = "break"
         /\ pending' = NoKey
    ELSE /\ asker' = [asker EXCEPT !.writes = 0, !.validated = 0]
         /\ consumed' = "None"
         /\ pending' = event

\* C9: When a key that types a single printable character c is pressed in
\* the command entry without Alt, and any selection reaches the end of the
\* entry, the first suggestion in list order whose command format starts
\* with the kept text and c is applied: the command entry becomes its command
\* format with the cursor right after the kept text and c and the rest
\* selected, the working-directory entry and the terminal choice are set from
\* it, and the key event is consumed.  In every other case the handler
\* changes no field and does not consume the event.
C9_Autocomplete ==
    [][\A event \in KeyEvents : KeyPress(event) => AutocompleteOnKey(event)]_vars

\* "f" was typed and the first of the two suggestions that start with it is
\* in the entry, its rest selected
C9_Witness ==
    /\ consumed = "break"
    /\ asker.command_format = <<"f", " ">>
    /\ asker.insert = 1
    /\ asker.sel_first = 1
    /\ asker.sel_last = 2
    /\ asker.cwd_format = <<"{", "f", "}">>

=============================================================================
